---------------------------- MODULE Spec2Model ----------------------------
(***************************************************************************)
(* Model of src/process.py: class Reader, a wrapper around a pandas        *)
(* DataFrame of tidal readings (dateTime, stationName, tideValue).         *)
(*                                                                         *)
(* State: the CSV file on disk, the Reader's DataFrame self.data, and the  *)
(* last call made on the Reader (its arguments, the table it was made on,  *)
(* how it ended and what it returned).                                     *)
(*                                                                         *)
(* Floats are modelled as exact numbers (heights as integers, means as     *)
(* reduced fractions); pandas' conversions between text, Timestamp and     *)
(* float are modelled by lookup tables over a small set of texts.          *)
(***************************************************************************)
EXTENDS Integers, Sequences, FiniteSets, TLC

VARIABLES disk, data, last

vars == <<disk, data, last>>

---------------------------------------------------------------------------
(* Bounds of the model *)

\* rows of the CSV file the Reader is first constructed from
MaxRows == 2

\* unnamed index columns a frame may hold when it is written (every
\* write_data adds one to the file, every Reader reads them back)
MaxIndexCols == 2

---------------------------------------------------------------------------
(* Texts and values *)

None == "None"

\* ISO 8601 texts of three instants, as the input file gives them
\* (src/process.py:64), in the order of the instants 1, 2, 3
IsoTexts ==
    <<"2021-09-20T01:00:00Z", "2021-09-20T02:00:00Z", "2021-09-20T03:00:00Z">>

\* str() of the Timestamps pd.to_datetime makes of them, as to_csv writes them
PandasTexts ==
    <<"2021-09-20 01:00:00+00:00", "2021-09-20 02:00:00+00:00",
      "2021-09-20 03:00:00+00:00">>

Instants == 1..Len(IsoTexts)

\* station names in alphabetical order; "Dover" never occurs in a file
StationOrder == <<"Bangor", "Dover", "Newlyn">>

Stations == {"Bangor", "Newlyn"}

\* repr() of the floats 0.0 .. 3.0, as to_csv writes them
FloatTexts == <<"0.0", "1.0", "2.0", "3.0">>

FloatRange == 0..(Len(FloatTexts) - 1)

NumericTexts == {FloatTexts[i + 1] : i \in FloatRange}

\* tideValue texts of the input file: a number and a text that is none
FileHeights == {"3.0", "bad"}

---------------------------------------------------------------------------
(* Cells of a DataFrame *)

\* a str held in an object column
StrCell(s) == [dtype |-> "object", text |-> s, num |-> 0, nan |-> FALSE]

\* a Timestamp (datetime64[ns, UTC]) of instant i
TsCell(i) == [dtype |-> "datetime64", text |-> "", num |-> i, nan |-> FALSE]

\* a float
FloatCell(n) == [dtype |-> "float64", text |-> "", num |-> n, nan |-> FALSE]

NaN == [dtype |-> "float64", text |-> "", num |-> 0, nan |-> TRUE]

\* pd.to_datetime of one value: a str is parsed, a Timestamp is kept
ToDatetimeCell(c) ==
    IF c.dtype = "datetime64" THEN c
    ELSE TsCell(CHOOSE i \in Instants : c.text = IsoTexts[i] \/ c.text = PandasTexts[i])

\* pd.to_datetime(self.data['dateTime'])
ToDatetime(column) == [i \in DOMAIN column |-> ToDatetimeCell(column[i])]

\* pd.to_numeric(..., errors='coerce') of one value: NaN for what does not parse
ToNumericCell(c) ==
    IF c.dtype = "float64" THEN c
    ELSE IF c.text \in NumericTexts
         THEN FloatCell(CHOOSE n \in FloatRange : FloatTexts[n + 1] = c.text)
         ELSE NaN

\* no fillna: NaN stays
KeepNaNCell(c) == c

\* .fillna(0) of one value
FillNa0Cell(c) == IF c.nan THEN FloatCell(0) ELSE c

\* pd.to_numeric(column, errors='coerce').fillna(0).astype('float')
CoerceTideValue(column) ==
    [i \in DOMAIN column |-> FillNa0Cell(ToNumericCell(column[i]))]

\* how Python orders two str index labels: ' ' sorts before 'T', so every
\* PandasTexts label precedes every IsoTexts label
StrRank(s) ==
    IF \E i \in Instants : PandasTexts[i] = s
    THEN CHOOSE i \in Instants : PandasTexts[i] = s
    ELSE Len(PandasTexts) + (CHOOSE i \in Instants : IsoTexts[i] = s)

StationRank(s) == CHOOSE i \in DOMAIN StationOrder : StationOrder[i] = s

---------------------------------------------------------------------------
(* DataFrames and the CSV codec *)

Column(rows, name) == [i \in DOMAIN rows |-> rows[i][name]]

\* the frame with one column replaced (self.data[name] = column)
SetColumn(rows, name, column) ==
    [i \in DOMAIN rows |-> [rows[i] EXCEPT ![name] = column[i]]]

\* a writer that drops the time of day of a Timestamp
CellTextCoarse(c) ==
    IF c.dtype = "object" THEN c.text
    ELSE IF c.dtype = "datetime64" THEN PandasTexts[1]
    ELSE FloatTexts[c.num + 1]

\* the text to_csv writes for one cell
CellText(c) ==
    IF c.dtype = "object" THEN c.text
    ELSE IF c.dtype = "datetime64" THEN PandasTexts[c.num]
    ELSE FloatTexts[c.num + 1]

\* DataFrame.to_csv(filename): a leading row-index column is written, then
\* every column of the frame
ToCsv(frame) ==
    [index_cols |-> frame.index_cols + 1,
     rows |-> [i \in DOMAIN frame.rows |->
                 [dateTime    |-> CellText(frame.rows[i].dateTime),
                  stationName |-> frame.rows[i].stationName,
                  tideValue   |-> CellText(frame.rows[i].tideValue)]]]

\* pd.read_csv(filename): dateTime and stationName stay str; tideValue is a
\* float column when every text of it parses, else an object column of str.
\* The file's leading columns come back as "Unnamed: 0", "Unnamed: 0.1", ...
ReadCsv(file) ==
    LET numeric == \A i \in DOMAIN file.rows : file.rows[i].tideValue \in NumericTexts
    IN [index_cols |-> file.index_cols,
        rows |-> [i \in DOMAIN file.rows |->
                    [dateTime    |-> StrCell(file.rows[i].dateTime),
                     stationName |-> file.rows[i].stationName,
                     tideValue   |-> IF numeric
                                     THEN ToNumericCell(StrCell(file.rows[i].tideValue))
                                     ELSE StrCell(file.rows[i].tideValue)]]]

FileRow == [dateTime : {IsoTexts[i] : i \in Instants},
            stationName : Stations,
            tideValue : FileHeights]

SeqsUpTo(S, n) == UNION {[1..k -> S] : k \in 0..n}

\* the files a Reader may be constructed from: a header and up to MaxRows rows
InputFiles == {[index_cols |-> 0, rows |-> r] : r \in SeqsUpTo(FileRow, MaxRows)}

---------------------------------------------------------------------------
(* Calls *)

NoArgs == [station_name |-> <<>>, time_from |-> None, time_to |-> None,
           reading |-> <<>>]

Call(op, args, table, outcome, returned) ==
    [op |-> op, args |-> args, table |-> table, outcome |-> outcome,
     returned |-> returned]

\* Reader(filename)
Init ==
    /\ disk \in InputFiles
    /\ data = ReadCsv(disk)
    /\ last = Call("__init__", NoArgs, ReadCsv(disk), "ok", None)

---------------------------------------------------------------------------
(* Pivot and label slicing *)

\* where an index label sorts: a Timestamp by its instant, a str as Python
\* compares strings
LabelRank(c) == IF c.dtype = "datetime64" THEN c.num ELSE StrRank(c.text)

RECURSIVE SortLabels(_)
\* the labels of a set in ascending order
SortLabels(S) ==
    IF S = {} THEN <<>>
    ELSE LET least == CHOOSE c \in S : \A d \in S : LabelRank(c) <= LabelRank(d)
         IN <<least>> \o SortLabels(S \ {least})

RECURSIVE SortStations(_)
SortStations(S) ==
    IF S = {} THEN <<>>
    ELSE LET least == CHOOSE c \in S : \A d \in S : StationRank(c) <= StationRank(d)
         IN <<least>> \o SortStations(S \ {least})

\* a reshape that never raises (pivot_table with aggfunc='first')
NeverDuplicateEntries(rows) == FALSE

\* pivot raises "Index contains duplicate entries, cannot reshape" when two
\* rows share the index label and the column label
HasDuplicateEntries(rows) ==
    \E i, j \in DOMAIN rows :
        /\ i # j
        /\ rows[i].dateTime = rows[j].dateTime
        /\ rows[i].stationName = rows[j].stationName

\* rows.pivot(index='dateTime', columns='stationName', values='tideValue'),
\* for rows without duplicate entries: one row per dateTime in ascending
\* order, one column per stationName of the data in ascending order, NaN
\* where a station has no reading at a dateTime
Pivot(rows) ==
    LET index   == SortLabels({rows[i].dateTime : i \in DOMAIN rows})
        columns == SortStations({rows[i].stationName : i \in DOMAIN rows})
        Value(label, station) ==
            IF \E i \in DOMAIN rows :
                   rows[i].dateTime = label /\ rows[i].stationName = station
            THEN rows[CHOOSE i \in DOMAIN rows :
                   rows[i].dateTime = label /\ rows[i].stationName = station].tideValue
            ELSE NaN
    IN [index   |-> index,
        columns |-> columns,
        values  |-> [p \in DOMAIN index |->
                       [q \in DOMAIN columns |-> Value(index[p], columns[q])]]]

\* how a str slice bound compares with the labels of an index: parsed to a
\* Timestamp against a DatetimeIndex, as a str against an object Index
BoundRank(index, bound) ==
    IF index # <<>> /\ index[1].dtype = "datetime64"
    THEN ToDatetimeCell(StrCell(bound)).num
    ELSE StrRank(bound)

\* a slice that leaves the upper end out, as a positional slice does
InSliceHalfOpen(index, label, time_from, time_to) ==
    /\ time_from = None \/ BoundRank(index, time_from) <= LabelRank(label)
    /\ time_to = None \/ LabelRank(label) < BoundRank(index, time_to)

\* whether the label slice time_from:time_to keeps a label (both ends
\* included, None is no limit)
InSlice(index, label, time_from, time_to) ==
    /\ time_from = None \/ BoundRank(index, time_from) <= LabelRank(label)
    /\ time_to = None \/ LabelRank(label) <= BoundRank(index, time_to)

\* the positions from p on that a boolean mask keeps, in order
RECURSIVE Positions(_, _)
Positions(mask, p) ==
    IF p > Len(mask) THEN <<>>
    ELSE (IF mask[p] THEN <<p>> ELSE <<>>) \o Positions(mask, p + 1)

\* df.loc[time_from:time_to, :] of a pivoted frame
Loc(df, time_from, time_to) ==
    LET mask == [p \in DOMAIN df.index |->
                    InSlice(df.index, df.index[p], time_from, time_to)]
        kept == Positions(mask, 1)
    IN [index   |-> [k \in DOMAIN kept |-> df.index[kept[k]]],
        columns |-> df.columns,
        values  |-> [k \in DOMAIN kept |-> df.values[kept[k]]]]

\* df[station_name] of a pivoted frame that has the column
SeriesOf(df, station_name) ==
    LET q == CHOOSE q \in DOMAIN df.columns : df.columns[q] = station_name
    IN [index  |-> df.index,
        values |-> [p \in DOMAIN df.index |-> df.values[p][q]]]

HasColumn(df, station_name) == \E q \in DOMAIN df.columns : df.columns[q] = station_name

---------------------------------------------------------------------------
(* Aggregates *)

RECURSIVE Gcd(_, _)
Gcd(a, b) == IF b = 0 THEN a ELSE Gcd(b, a % b)

\* a float result, kept exact: num / den in lowest terms; den = 0 is nan
Frac(num, den) ==
    LET g == Gcd(num, den)
    IN IF den = 0 THEN [num |-> 0, den |-> 0]
       ELSE [num |-> num \div g, den |-> den \div g]

RECURSIVE SumSeq(_)
SumSeq(s) == IF s = <<>> THEN 0 ELSE s[1] + SumSeq(Tail(s))

\* the tideValue numbers of one group of groupby('stationName'), in row
\* order; max, min and mean skip NaN (skipna=True)
GroupValues(rows, station) ==
    LET mask == [i \in DOMAIN rows |->
                    rows[i].stationName = station /\ ~rows[i].tideValue.nan]
        kept == Positions(mask, 1)
    IN [k \in DOMAIN kept |-> rows[kept[k]].tideValue.num]

\* Series.max(): nan when nothing is left to compare
SeriesMax(values) ==
    IF values = <<>> THEN Frac(0, 0)
    ELSE Frac(CHOOSE v \in {values[k] : k \in DOMAIN values} :
                  \A k \in DOMAIN values : values[k] <= v, 1)

\* Series.min()
SeriesMin(values) ==
    IF values = <<>> THEN Frac(0, 0)
    ELSE Frac(CHOOSE v \in {values[k] : k \in DOMAIN values} :
                  \A k \in DOMAIN values : v <= values[k], 1)

\* Series.mean()
SeriesMean(values) == Frac(SumSeq(values), Len(values))

\* an aggregate over every known station, nan for those without rows
GroupByApplyAllStations(rows, kind) ==
    [s \in Stations |->
        CASE kind = "max_tides"  -> SeriesMax(GroupValues(rows, s))
          [] kind = "min_tides"  -> SeriesMin(GroupValues(rows, s))
          [] kind = "mean_tides" -> SeriesMean(GroupValues(rows, s))]

\* rows.groupby('stationName').apply(lambda df: df.tideValue.<kind>()): one
\* entry per stationName of the rows; no entry, and no error, for no rows
GroupByApply(rows, kind) ==
    [s \in {rows[i].stationName : i \in DOMAIN rows} |->
        CASE kind = "max_tides"  -> SeriesMax(GroupValues(rows, s))
          [] kind = "min_tides"  -> SeriesMin(GroupValues(rows, s))
          [] kind = "mean_tides" -> SeriesMean(GroupValues(rows, s))]

\* self.data.loc[time_from:time_to, :] of the Reader's own frame, whose index
\* is the RangeIndex of row numbers: with a str bound pandas, depending on its
\* version, raises TypeError or cuts the frame at some row number; without
\* bounds the slice is the whole frame
RangeIndexSliceOutcomes(time_from, time_to) ==
    IF time_from = None /\ time_to = None THEN {"ok"} ELSE {"ok", "TypeError"}

---------------------------------------------------------------------------
(* Arguments *)

\* time_from, time_to: None or an ISO 8601 str
Bounds == {None, IsoTexts[2]}

\* station_name of station_tides: a str or a list of strs, as a list
StationLists == {<<"Newlyn">>, <<"Newlyn", "Bangor">>, <<"Dover">>}

\* station_name of station_graph
GraphStations == {"Newlyn", "Dover"}

\* (date_time, station_name, tide_value) of add_data
NewReadings == {<<IsoTexts[2], "Newlyn", 2>>, <<IsoTexts[3], "Dover", 2>>}

Args(station_name, time_from, time_to) ==
    [station_name |-> station_name, time_from |-> time_from, time_to |-> time_to,
     reading |-> <<>>]

---------------------------------------------------------------------------
(* Operations *)

\* the frame station_tides returns for rows without duplicate entries: the
\* pivot of the rows with dateTime as Timestamps, sliced by label
StationTidesFrame(rows, time_from, time_to) ==
    Loc(Pivot(SetColumn(rows, "dateTime", ToDatetime(Column(rows, "dateTime")))),
        time_from, time_to)

\* Reader.station_tides(station_name, time_from, time_to); station_name is
\* not used by the body
StationTides(station_name, time_from, time_to) ==
    LET rows == SetColumn(data.rows, "dateTime",
                          ToDatetime(Column(data.rows, "dateTime")))
        args == Args(station_name, time_from, time_to)
    IN /\ data' = [data EXCEPT !.rows = rows]
       /\ last' = IF HasDuplicateEntries(rows)
                  THEN Call("station_tides", args, data, "ValueError", None)
                  ELSE Call("station_tides", args, data, "ok",
                            StationTidesFrame(data.rows, time_from, time_to))
       /\ UNCHANGED disk

\* the body of Reader.max_tides, min_tides and mean_tides: the two columns
\* are rewritten, the frame is sliced into df, and df is then rebound to the
\* aggregate over self.data, the slice being dropped
Aggregate(kind, time_from, time_to) ==
    \E slice \in RangeIndexSliceOutcomes(time_from, time_to) :
        LET coerced == SetColumn(data.rows, "tideValue",
                                 CoerceTideValue(Column(data.rows, "tideValue")))
            rows == SetColumn(coerced, "dateTime",
                              ToDatetime(Column(coerced, "dateTime")))
            args == Args(<<>>, time_from, time_to)
        IN /\ data' = [data EXCEPT !.rows = rows]
           /\ last' = IF slice = "TypeError"
                      THEN Call(kind, args, data, "TypeError", None)
                      ELSE Call(kind, args, data, "ok", GroupByApply(rows, kind))
           /\ UNCHANGED disk

MaxTides(time_from, time_to) == Aggregate("max_tides", time_from, time_to)

MinTides(time_from, time_to) == Aggregate("min_tides", time_from, time_to)

MeanTides(time_from, time_to) == Aggregate("mean_tides", time_from, time_to)

\* Reader.station_graph(station_name, time_from, time_to); what it returns
\* here is the Series it hands to the renderer (df1[station_name].plot())
StationGraph(station_name, time_from, time_to) ==
    LET rows == SetColumn(data.rows, "tideValue",
                          CoerceTideValue(Column(data.rows, "tideValue")))
        args == Args(<<station_name>>, time_from, time_to)
        df1  == Loc(Pivot(rows), time_from, time_to)
    IN /\ data' = [data EXCEPT !.rows = rows]
       /\ last' = IF HasDuplicateEntries(rows)
                  THEN Call("station_graph", args, data, "ValueError", None)
                  ELSE IF ~HasColumn(df1, station_name)
                  THEN Call("station_graph", args, data, "KeyError", None)
                  ELSE Call("station_graph", args, data, "ok",
                            SeriesOf(df1, station_name))
       /\ UNCHANGED disk

\* pd.concat([self.data, df2], ignore_index=True) with the one-row frame df2
Concat(frame, date_time, station_name, tide_value) ==
    [frame EXCEPT !.rows = Append(frame.rows,
        [dateTime    |-> StrCell(date_time),
         stationName |-> station_name,
         tideValue   |-> FloatCell(tide_value)])]

\* Reader.add_data(date_time, station_name, tide_value): the second
\* definition of the name in the class, the one in force
AddData(date_time, station_name, tide_value) ==
    /\ last' = Call("add_data",
                    [NoArgs EXCEPT !.reading = <<date_time, station_name, tide_value>>],
                    data, "ok",
                    Concat(data, date_time, station_name, tide_value))
    /\ UNCHANGED <<data, disk>>

\* a new Reader on the file (the model follows the newest Reader)
Load ==
    /\ data' = ReadCsv(disk)
    /\ last' = Call("__init__", NoArgs, ReadCsv(disk), "ok", None)
    /\ UNCHANGED disk

\* Reader.write_data(filename)
WriteData ==
    /\ data.index_cols < MaxIndexCols
    /\ disk' = ToCsv(data)
    /\ last' = Call("write_data", NoArgs, data, "ok", None)
    /\ UNCHANGED data

\* every operation, in any order; the windows are bounded from below only,
\* both ends being drawn in the specifications of the single operations
Next ==
    \/ Load
    \/ WriteData
    \/ \E s \in StationLists, f \in Bounds : StationTides(s, f, None)
    \/ \E f \in Bounds : MaxTides(f, None)
    \/ \E f \in Bounds : MinTides(f, None)
    \/ \E f \in Bounds : MeanTides(f, None)
    \/ \E s \in GraphStations, f \in Bounds : StationGraph(s, f, None)
    \/ \E r \in NewReadings : AddData(r[1], r[2], r[3])

Spec == Init /\ [][Next]_vars

\* station_tides alone, over every argument
NextSeries ==
    \E s \in StationLists, f \in Bounds, t \in Bounds : StationTides(s, f, t)

SpecSeries == Init /\ [][NextSeries]_vars

\* station_graph alone, over every argument
NextGraph ==
    \E s \in GraphStations, f \in Bounds, t \in Bounds : StationGraph(s, f, t)

SpecGraph == Init /\ [][NextGraph]_vars

\* the three aggregates, over every argument
NextAggregate ==
    \/ \E f \in Bounds, t \in Bounds : MaxTides(f, t)
    \/ \E f \in Bounds, t \in Bounds : MinTides(f, t)
    \/ \E f \in Bounds, t \in Bounds : MeanTides(f, t)

SpecAggregate == Init /\ [][NextAggregate]_vars

\* a session of exports and reloads between queries and appends, the queries
\* called without bounds
NextSession ==
    \/ Load
    \/ WriteData
    \/ StationTides(<<"Newlyn">>, None, None)
    \/ MaxTides(None, None)
    \/ StationGraph("Newlyn", None, None)
    \/ AddData(IsoTexts[2], "Newlyn", 2)

SpecSession == Init /\ [][NextSession]_vars

---------------------------------------------------------------------------
(* What the properties are stated with *)

\* the instant a text or a stored dateTime denotes
InstantOfText(s) == CHOOSE i \in Instants : s = IsoTexts[i] \/ s = PandasTexts[i]

InstantOf(c) == IF c.dtype = "datetime64" THEN c.num ELSE InstantOfText(c.text)

\* i lies in [time_from, time_to], None being no limit on that side
InWindow(i, time_from, time_to) ==
    /\ time_from = None \/ InstantOfText(time_from) <= i
    /\ time_to = None \/ i <= InstantOfText(time_to)

\* the number a tideValue counts as: its value, 0 when it is not a number
HeightValues == ("0.0" :> 0) @@ ("1.0" :> 1) @@ ("2.0" :> 2) @@ ("3.0" :> 3)

CoercedHeight(c) ==
    IF c.dtype = "float64" THEN (IF c.nan THEN 0 ELSE c.num)
    ELSE IF c.text \in DOMAIN HeightValues THEN HeightValues[c.text] ELSE 0

IsNonNumeric(c) == c.dtype = "object" /\ c.text \notin DOMAIN HeightValues

\* two readings of one station at one instant
DuplicateReadings(rows) ==
    \E i, j \in DOMAIN rows :
        /\ i # j
        /\ InstantOf(rows[i].dateTime) = InstantOf(rows[j].dateTime)
        /\ rows[i].stationName = rows[j].stationName

StationsOf(rows) == {rows[i].stationName : i \in DOMAIN rows}

\* the rows of a station whose instant lies in the window
RowsOf(rows, station, time_from, time_to) ==
    {i \in DOMAIN rows :
        /\ rows[i].stationName = station
        /\ InWindow(InstantOf(rows[i].dateTime), time_from, time_to)}

RECURSIVE SumHeights(_, _)
SumHeights(rows, I) ==
    IF I = {} THEN 0
    ELSE LET i == CHOOSE i \in I : TRUE
         IN CoercedHeight(rows[i].tideValue) + SumHeights(rows, I \ {i})

\* whether value is the aggregate of the coerced heights of the rows I
IsAggregate(kind, value, rows, I) ==
    LET heights == {CoercedHeight(rows[i].tideValue) : i \in I}
    IN CASE kind = "max_tides" ->
              /\ value.den = 1 /\ value.num \in heights
              /\ \A h \in heights : h <= value.num
         [] kind = "min_tides" ->
              /\ value.den = 1 /\ value.num \in heights
              /\ \A h \in heights : value.num <= h
         [] kind = "mean_tides" ->
              value.num * Cardinality(I) = SumHeights(rows, I) * value.den

AggregateOps == {"max_tides", "min_tides", "mean_tides"}

QueryOps == AggregateOps \cup {"station_tides", "station_graph"}

Unbounded == last.args.time_from = None /\ last.args.time_to = None

---------------------------------------------------------------------------
(* Properties *)

\* C1: after add_data the Reader holds one reading more than before, the new
\* reading being its last row.
AddReadingGrowsTable ==
    last.op = "add_data" =>
        /\ Len(data.rows) = Len(last.table.rows) + 1
        /\ data.rows[Len(data.rows)].stationName = last.args.reading[2]

\* C2: what an aggregate call returns is, for exactly the stations with a
\* reading in the window [time_from, time_to], the max, min or mean of the
\* station's coerced heights over the readings in the window.
AggregateOverWindow ==
    (last.op \in AggregateOps /\ last.outcome = "ok") =>
        LET rows == last.table.rows
            f == last.args.time_from
            t == last.args.time_to
        IN /\ DOMAIN last.returned =
                  {s \in StationsOf(rows) : RowsOf(rows, s, f, t) # {}}
           /\ \A s \in DOMAIN last.returned :
                  IsAggregate(last.op, last.returned[s], rows, RowsOf(rows, s, f, t))

\* C3: on a table without duplicate (timestamp, station) pairs station_tides
\* returns the points whose timestamp lies in [time_from, time_to], both ends
\* included and None being no limit: only such points, every such point of
\* the table, in ascending timestamp order.
StationSeriesWindow ==
    (last.op = "station_tides" /\ ~DuplicateReadings(last.table.rows)) =>
        LET rows == last.table.rows
            f == last.args.time_from
            t == last.args.time_to
            df == last.returned
        IN /\ last.outcome = "ok"
           /\ \A p \in DOMAIN df.index : InWindow(InstantOf(df.index[p]), f, t)
           /\ \A p, q \in DOMAIN df.index :
                  p < q => InstantOf(df.index[p]) < InstantOf(df.index[q])
           /\ \A i \in DOMAIN rows :
                  InWindow(InstantOf(rows[i].dateTime), f, t) =>
                      \E p \in DOMAIN df.index, q \in DOMAIN df.columns :
                          /\ InstantOf(df.index[p]) = InstantOf(rows[i].dateTime)
                          /\ df.columns[q] = rows[i].stationName
                          /\ df.values[p][q] = rows[i].tideValue
           /\ \A p \in DOMAIN df.index, q \in DOMAIN df.columns :
                  df.values[p][q] # NaN =>
                      \E i \in DOMAIN rows :
                          /\ InstantOf(df.index[p]) = InstantOf(rows[i].dateTime)
                          /\ df.columns[q] = rows[i].stationName
                          /\ df.values[p][q] = rows[i].tideValue

\* a bounded station_tides call that kept one timestamp and left a reading out
StationSeriesWindowWitness ==
    /\ last.op = "station_tides"
    /\ last.outcome = "ok"
    /\ last.args.time_from # None
    /\ last.args.time_to # None
    /\ Len(last.returned.index) = 1
    /\ \E i \in DOMAIN last.table.rows :
           ~InWindow(InstantOf(last.table.rows[i].dateTime),
                     last.args.time_from, last.args.time_to)

\* C4: station_tides returns one column per requested station that occurs in
\* the data and no column for a station that was not requested.
OnlyRequestedStations ==
    (last.op = "station_tides" /\ last.outcome = "ok") =>
        {last.returned.columns[q] : q \in DOMAIN last.returned.columns} =
        {last.args.station_name[k] : k \in DOMAIN last.args.station_name}
            \cap StationsOf(last.table.rows)

\* C5: in an aggregate call a tideValue that is not a number counts as a
\* reading of height 0: the call without bounds does not fail, and what a
\* call returns for a station is the max, min or mean over all the station's
\* readings with 0 for the non-numeric ones (the mean dividing by their count).
NonNumericCountsAsZero ==
    last.op \in AggregateOps =>
        LET rows == last.table.rows
        IN /\ Unbounded => last.outcome = "ok"
           /\ last.outcome = "ok" =>
                  /\ DOMAIN last.returned = StationsOf(rows)
                  /\ \A s \in StationsOf(rows) :
                         IsAggregate(last.op, last.returned[s], rows,
                                     RowsOf(rows, s, None, None))

\* mean_tides returned 3/2 for a station with the heights "bad" and 3.0
NonNumericCountsAsZeroWitness ==
    /\ last.op = "mean_tides"
    /\ last.outcome = "ok"
    /\ Len(last.table.rows) = 2
    /\ \A i \in DOMAIN last.table.rows : last.table.rows[i].stationName = "Newlyn"
    /\ \E i \in DOMAIN last.table.rows : IsNonNumeric(last.table.rows[i].tideValue)
    /\ last.returned["Newlyn"] = [num |-> 3, den |-> 2]

\* the timestamps, stations and heights of b are those of a, row by row; a
\* timestamp held as text is the same text
SameReadings(a, b) ==
    /\ Len(a.rows) = Len(b.rows)
    /\ \A i \in DOMAIN a.rows :
           /\ InstantOf(a.rows[i].dateTime) = InstantOf(b.rows[i].dateTime)
           /\ b.rows[i].dateTime.dtype = "object" =>
                  a.rows[i].dateTime = b.rows[i].dateTime
           /\ a.rows[i].stationName = b.rows[i].stationName
           /\ a.rows[i].tideValue = b.rows[i].tideValue

\* C6: a Reader constructed from the file write_data has just written holds
\* the readings of the exporting Reader: as many, in the same order, with the
\* same timestamp, station and height.
RoundTripPreservesReadings ==
    [][(last.op = "write_data" /\ last'.op = "__init__") =>
           SameReadings(data', data)]_vars

\* a Reader of a twice exported table whose timestamps went to disk as
\* Timestamps and whose non-numeric height went to disk coerced or not
RoundTripWitness ==
    /\ last.op = "__init__"
    /\ data.index_cols = 2
    /\ data.rows # <<>>
    /\ \A i \in DOMAIN data.rows :
           \E k \in Instants : data.rows[i].dateTime.text = PandasTexts[k]
    /\ \E i \in DOMAIN data.rows : IsNonNumeric(data.rows[i].tideValue)

\* C7: station_tides on a table with two readings of one station at one
\* timestamp ends in an error, not in a result.
DuplicateReadingRaises ==
    (last.op = "station_tides" /\ DuplicateReadings(last.table.rows)) =>
        last.outcome = "ValueError"

\* station_tides raised on a table with a duplicate reading
DuplicateReadingWitness ==
    /\ last.op = "station_tides"
    /\ DuplicateReadings(last.table.rows)
    /\ last.table.rows[1].tideValue # last.table.rows[2].tideValue
    /\ last.outcome = "ValueError"

\* C8: max_tides without bounds on a table of no readings returns an empty
\* mapping and does not fail.
EmptyTableMax ==
    (last.op = "max_tides" /\ last.table.rows = <<>> /\ Unbounded) =>
        /\ last.outcome = "ok"
        /\ DOMAIN last.returned = {}

\* max_tides returned on a table of no readings
EmptyTableMaxWitness ==
    /\ last.op = "max_tides"
    /\ last.table.rows = <<>>
    /\ Unbounded
    /\ last.outcome = "ok"

\* C9: a query leaves the Reader's table as it was: as many readings, in the
\* same order, each with its timestamp, station and stored tideValue.
QueriesLeaveTableUnchanged ==
    last.op \in QueryOps =>
        /\ Len(data.rows) = Len(last.table.rows)
        /\ \A i \in DOMAIN data.rows :
               /\ InstantOf(data.rows[i].dateTime) =
                      InstantOf(last.table.rows[i].dateTime)
               /\ data.rows[i].stationName = last.table.rows[i].stationName
               /\ data.rows[i].tideValue = last.table.rows[i].tideValue

\* C10: the series station_graph plots is the one station_tides returns for
\* the station and window on the same table: the same timestamps and the
\* same heights.
GraphSeriesIsStationSeries ==
    (/\ last.op = "station_graph"
     /\ ~DuplicateReadings(last.table.rows)
     /\ last.args.station_name[1] \in StationsOf(last.table.rows)) =>
        LET expected == SeriesOf(StationTidesFrame(last.table.rows,
                                     last.args.time_from, last.args.time_to),
                                 last.args.station_name[1])
        IN /\ last.outcome = "ok"
           /\ Len(last.returned.index) = Len(expected.index)
           /\ \A p \in DOMAIN expected.index :
                  /\ InstantOf(last.returned.index[p]) = InstantOf(expected.index[p])
                  /\ last.returned.values[p] = expected.values[p]

===========================================================================
